---------------------------- MODULE Spec2Model ----------------------------
(***************************************************************************)
(* State-machine model of the VirtualBox builder (package virtualbox):     *)
(* Builder.Prepare, Builder.Run, Builder.Cancel and Builder.newDriver.     *)
(*                                                                         *)
(* Strings the code transforms (iso_url, iso_md5, URL parts) are sequences *)
(* of one-character strings, so that url.Parse, URL.String and             *)
(* strings.ToLower are computed character by character.  Strings the code  *)
(* only copies and compares with "" (guest_os_type, output_directory,      *)
(* vm_name) are TLA+ strings.                                              *)
(***************************************************************************)
EXTENDS Naturals, Integers, Sequences, FiniteSets, TLC

VARIABLES
    config,           \* b.config
    driver,           \* b.driver: "nil" or "VBox42Driver"
    runner,           \* b.runner: the two words of the interface value
    prep,             \* the last Prepare call: its input, result, errors, effects
    runPc,            \* where the goroutine inside Builder.Run is
    bag,              \* the state bag built by Run
    rn,               \* the step runner Run created (multistep.BasicRunner)
    artifact,         \* what the last Run returned
    runs,             \* number of Run calls so far (identity of the runner)
    cancels,          \* number of Cancel calls so far
    cancelPc,         \* where the goroutine inside Builder.Cancel is
    recancelChanged,  \* a Cancel of an already cancelled run changed the runner
    faulted,          \* a Cancel call dereferenced a nil runner
    runSincePrepare   \* a Run has begun since the most recent Prepare

vars == <<config, driver, runner, prep, runPc, bag, rn, artifact, runs,
          cancels, cancelPc, recancelChanged, faulted, runSincePrepare>>

runVars == <<runner, runPc, bag, rn, artifact, runs, cancels, cancelPc,
            recancelChanged, faulted>>

(***************************************************************************)
(* Bounds of the model.                                                    *)
(***************************************************************************)
MaxRuns == 2
MaxCancels == 2

(***************************************************************************)
(* Characters and strings.                                                 *)
(***************************************************************************)
Uppers == <<"A","B","C","D","E","F","G","H","I","J","K","L","M",
            "N","O","P","Q","R","S","T","U","V","W","X","Y","Z">>
Lowers == <<"a","b","c","d","e","f","g","h","i","j","k","l","m",
            "n","o","p","q","r","s","t","u","v","w","x","y","z">>

IsUpper(c) == \E i \in 1..Len(Uppers) : Uppers[i] = c
IsLetter(c) == \E i \in 1..Len(Uppers) : Uppers[i] = c \/ Lowers[i] = c
IsSchemeExtra(c) == c \in {"0","1","2","3","4","5","6","7","8","9","+","-","."}

LowerChar(c) ==
    IF IsUpper(c) THEN Lowers[CHOOSE i \in 1..Len(Uppers) : Uppers[i] = c] ELSE c

\* strings.ToLower
ToLower(s) == [i \in 1..Len(s) |-> LowerChar(s[i])]

HasPrefix(s, p) == Len(s) >= Len(p) /\ SubSeq(s, 1, Len(p)) = p

\* position of the first c in s, 0 when there is none
IndexOf(s, c) ==
    IF \E i \in 1..Len(s) : s[i] = c
    THEN CHOOSE i \in 1..Len(s) : s[i] = c /\ \A j \in 1..(i-1) : s[j] # c
    ELSE 0

(***************************************************************************)
(* net/url as called by Prepare.  The inputs of the model hold no '?',     *)
(* '#', '%', '@', '[' or control character, so query, fragment, userinfo,  *)
(* IPv6 hosts and escaping do not arise.                                   *)
(***************************************************************************)
EmptyURL == [Scheme |-> <<>>, Opaque |-> <<>>, Host |-> <<>>, Path |-> <<>>,
             OmitHost |-> FALSE]

\* url.getscheme: (scheme, rest, err)
RECURSIVE getschemeFrom(_, _)
getschemeFrom(rawurl, i) ==
    IF i > Len(rawurl)
    THEN [scheme |-> <<>>, rest |-> rawurl, err |-> FALSE]
    ELSE LET c == rawurl[i] IN
         IF IsLetter(c) THEN getschemeFrom(rawurl, i + 1)
         ELSE IF IsSchemeExtra(c)
         THEN IF i = 1 THEN [scheme |-> <<>>, rest |-> rawurl, err |-> FALSE]
                       ELSE getschemeFrom(rawurl, i + 1)
         ELSE IF c = ":"
         THEN IF i = 1 THEN [scheme |-> <<>>, rest |-> <<>>, err |-> TRUE]
                       ELSE [scheme |-> SubSeq(rawurl, 1, i - 1),
                             rest |-> SubSeq(rawurl, i + 1, Len(rawurl)),
                             err |-> FALSE]
         ELSE [scheme |-> <<>>, rest |-> rawurl, err |-> FALSE]

getscheme(rawurl) == getschemeFrom(rawurl, 1)

\* the part of s before its first "/" (all of s when it has none)
FirstSegment(s) ==
    IF IndexOf(s, "/") = 0 THEN s ELSE SubSeq(s, 1, IndexOf(s, "/") - 1)

\* the part of s from its first "/" on (empty when it has none)
FromSlash(s) ==
    IF IndexOf(s, "/") = 0 THEN <<>> ELSE SubSeq(s, IndexOf(s, "/"), Len(s))

\* url.parse after the scheme is split off: [err, url]
parseRest(scheme, rest) ==
    IF ~HasPrefix(rest, <<"/">>) /\ scheme # <<>>
    THEN \* a rootless path after a scheme is opaque
         [err |-> FALSE, url |-> [EmptyURL EXCEPT !.Scheme = scheme, !.Opaque = rest]]
    ELSE IF ~HasPrefix(rest, <<"/">>) /\ IndexOf(FirstSegment(rest), ":") # 0
    THEN \* first path segment in URL cannot contain colon
         [err |-> TRUE, url |-> EmptyURL]
    ELSE IF (scheme # <<>> \/ ~HasPrefix(rest, <<"/","/","/">>))
            /\ HasPrefix(rest, <<"/","/">>)
    THEN \* an authority: //host up to the next "/"
         [err |-> FALSE,
          url |-> [EmptyURL EXCEPT !.Scheme = scheme,
                                   !.Host = FirstSegment(SubSeq(rest, 3, Len(rest))),
                                   !.Path = FromSlash(SubSeq(rest, 3, Len(rest)))]]
    ELSE [err |-> FALSE,
          url |-> [EmptyURL EXCEPT !.Scheme = scheme, !.Path = rest,
                                   !.OmitHost = (scheme # <<>> /\ HasPrefix(rest, <<"/">>))]]

\* url.Parse: [err, url]; Parse lower-cases the scheme it returns, so the
\* comparison with "file" in Prepare sees "FILE" as "file"
parseSplit(g) ==
    IF g.err THEN [err |-> TRUE, url |-> EmptyURL]
    ELSE parseRest(ToLower(g.scheme), g.rest)

Parse(rawurl) == parseSplit(getscheme(rawurl))

\* URL.String
URLString(u) ==
    LET head == IF u.Scheme # <<>> THEN u.Scheme \o <<":">> ELSE <<>> IN
    IF u.Opaque # <<>> THEN head \o u.Opaque
    ELSE
    LET auth == IF u.Scheme # <<>> \/ u.Host # <<>>
                THEN IF u.OmitHost /\ u.Host = <<>> THEN <<>>
                     ELSE (IF u.Host # <<>> \/ u.Path # <<>> THEN <<"/","/">> ELSE <<>>)
                          \o u.Host
                ELSE <<>>
        sep == IF u.Path # <<>> /\ u.Path[1] # "/" /\ u.Host # <<>>
               THEN <<"/">> ELSE <<>>
    IN head \o auth \o sep \o u.Path

(***************************************************************************)
(* The environment of Prepare: the file system and the VBoxManage tool.    *)
(***************************************************************************)
\* names on which os.Stat succeeds
Files == { <<"/","a">>, <<"a">> }

\* os.Stat(name) returns no error
Stat(name) == name \in Files

(***************************************************************************)
(* Builder.Prepare.                                                        *)
(***************************************************************************)
FileScheme == <<"f","i","l","e">>
SupportedSchemes == { FileScheme, <<"h","t","t","p">>, <<"h","t","t","p","s">> }

ErrNoMD5 == [kind |-> "iso_md5 required", detail |-> <<>>]
ErrNoUrl == [kind |-> "iso_url must be specified", detail |-> <<>>]
ErrBadUrl == [kind |-> "iso_url is not a valid URL", detail |-> <<>>]
ErrBadFile == [kind |-> "iso_url points to bad file", detail |-> <<>>]
ErrScheme(scheme) == [kind |-> "Unsupported URL scheme in iso_url", detail |-> scheme]
ErrDriver(cause) == [kind |-> "Failed creating VirtualBox driver", detail |-> cause]

\* the value Decode leaves in a field: that of the raw spec's key, or the
\* field's old value when the raw spec has no such key
Field(raw, key, old, new) == IF key \in raw.absent THEN old ELSE new

\* mapstructure.Decode(raw, &b.config) on config c: [config, err].  Fields
\* are written in the order of the struct; a raw spec that is not typed holds
\* a value that is no string under vm_name, the last field, which fails
\* after the other fields were written
Decode(c, raw) ==
    [config |->
        [GuestOSType |-> Field(raw, "guest_os_type", c.GuestOSType, raw.guest_os_type),
         ISOMD5 |-> Field(raw, "iso_md5", c.ISOMD5, raw.iso_md5),
         ISOUrl |-> Field(raw, "iso_url", c.ISOUrl, raw.iso_url),
         OutputDir |-> Field(raw, "output_directory", c.OutputDir, raw.output_directory),
         VMName |-> IF raw.typed THEN Field(raw, "vm_name", c.VMName, raw.vm_name)
                                 ELSE c.VMName],
     err |-> ~raw.typed]

\* the three defaults
ApplyDefaults(c) ==
    [c EXCEPT !.GuestOSType = IF @ = "" THEN "Other" ELSE @,
              !.OutputDir = IF @ = "" THEN "virtualbox" ELSE @,
              !.VMName = IF @ = "" THEN "packer" ELSE @]

\* the iso_md5 check: [config, errs]
CheckISOMD5(c, errs) ==
    IF c.ISOMD5 = <<>>
    THEN [config |-> c, errs |-> Append(errs, ErrNoMD5)]
    ELSE [config |-> [c EXCEPT !.ISOMD5 = ToLower(@)], errs |-> errs]

\* the validation of a parsed iso_url: [errs, log, url]
CheckParsedUrl(rawurl, parsed, errs) ==
    LET url == IF parsed.Scheme = <<>> THEN [parsed EXCEPT !.Scheme = FileScheme]
                                       ELSE parsed
    IN
    IF url.Scheme = FileScheme
    THEN LET ok == Stat(rawurl) IN
         [errs |-> IF ok THEN errs ELSE Append(errs, ErrBadFile),
          log |-> << [op |-> "Stat", arg |-> rawurl, ok |-> ok] >>,
          url |-> url]
    ELSE LET scheme == ToLower(url.Scheme) IN
         [errs |-> IF scheme \in SupportedSchemes THEN errs
                   ELSE Append(errs, ErrScheme(scheme)),
          log |-> <<>>,
          url |-> url]

\* the check of a non-empty iso_url: [config, errs, log]
CheckGivenUrl(c, errs) ==
    LET p == Parse(c.ISOUrl)
        v == IF p.err
             THEN [errs |-> Append(errs, ErrBadUrl), log |-> <<>>, url |-> p.url]
             ELSE CheckParsedUrl(c.ISOUrl, p.url, errs)
    IN [config |-> IF Len(v.errs) = 0
                   THEN [c EXCEPT !.ISOUrl = URLString(v.url)]
                   ELSE c,
        errs |-> v.errs,
        log |-> v.log]

\* the iso_url check: [config, errs, log]
CheckISOUrl(c, errs) ==
    IF c.ISOUrl = <<>>
    THEN [config |-> c, errs |-> Append(errs, ErrNoUrl), log |-> <<>>]
    ELSE CheckGivenUrl(c, errs)

\* Builder.newDriver: [driver, err, cause, log]
newDriver(toolFound, verifyOk) ==
    IF ~toolFound
    THEN [driver |-> "nil", err |-> TRUE, cause |-> <<"LookPath">>,
          log |-> << [op |-> "LookPath", arg |-> <<>>, ok |-> FALSE] >>]
    ELSE IF ~verifyOk
    THEN [driver |-> "nil", err |-> TRUE, cause |-> <<"Verify">>,
          log |-> << [op |-> "LookPath", arg |-> <<>>, ok |-> TRUE],
                     [op |-> "Verify", arg |-> <<>>, ok |-> FALSE] >>]
    ELSE [driver |-> "VBox42Driver", err |-> FALSE, cause |-> <<>>,
          log |-> << [op |-> "LookPath", arg |-> <<>>, ok |-> TRUE],
                     [op |-> "Verify", arg |-> <<>>, ok |-> TRUE] >>]

\* variant: the driver is built only when no error was found
MakeDriverUnlessErrs(errs, toolFound, verifyOk) ==
    IF errs # <<>> THEN [driver |-> "nil", errs |-> errs, log |-> <<>>]
    ELSE [driver |-> newDriver(toolFound, verifyOk).driver,
          errs |-> IF newDriver(toolFound, verifyOk).err
                   THEN Append(errs, ErrDriver(newDriver(toolFound, verifyOk).cause))
                   ELSE errs,
          log |-> newDriver(toolFound, verifyOk).log]
\* the driver step of Prepare, which runs whatever errs holds: [driver, errs, log]
MakeDriver(errs, toolFound, verifyOk) ==
    [driver |-> newDriver(toolFound, verifyOk).driver,
     errs |-> IF newDriver(toolFound, verifyOk).err
              THEN Append(errs, ErrDriver(newDriver(toolFound, verifyOk).cause))
              ELSE errs,
     log |-> newDriver(toolFound, verifyOk).log]

\* what Prepare returns for the errors it collected
PrepareReturn(errs) == IF Len(errs) > 0 THEN "MultiError" ELSE "nil"

\* Prepare after a successful Decode into config c:
\* [config, driver, ret, errs, log]
Validate(c, toolFound, verifyOk) ==
    LET m == CheckISOMD5(ApplyDefaults(c), <<>>)
        u == CheckISOUrl(m.config, m.errs)
        d == MakeDriver(u.errs, toolFound, verifyOk)
    IN [config |-> u.config,
        driver |-> d.driver,
        ret |-> PrepareReturn(d.errs),
        errs |-> d.errs,
        log |-> u.log \o d.log]

(***************************************************************************)
(* Inputs.                                                                 *)
(***************************************************************************)
UrlAbs == <<"/","a">>                                   \* an existing file
UrlAbsMissing == <<"/","b">>                            \* no such file
UrlRel == <<"a">>                                       \* an existing file
UrlFile == <<"f","i","l","e",":","/","/","/","a">>      \* file:///a
UrlFileMissing == <<"f","i","l","e",":","/","/","/","b">>
UrlFileUpper == <<"F","I","L","E",":","/","/","/","a">>
UrlHttp == <<"h","t","t","p",":","/","/","h","/","a">>  \* http://h/a
UrlHttpUpper == <<"H","T","T","P",":","/","/","h","/","a">>
UrlHttps == <<"h","t","t","p","s",":","/","/","h","/","a">>
UrlNoScheme == <<"h","/","a">>                          \* h/a
UrlFtp == <<"f","t","p",":","/","/","h","/","a">>
UrlBad == <<":","a">>                                   \* does not parse

Urls == { <<>>, UrlAbs, UrlAbsMissing, UrlRel, UrlFile, UrlFileMissing,
          UrlFileUpper, UrlHttp, UrlHttpUpper, UrlHttps, UrlNoScheme, UrlFtp,
          UrlBad }

MD5s == { <<>>, <<"A","b","1">>, <<"a","b","1">> }

\* guest_os_type, output_directory, vm_name: none, all or some supplied
Names == { <<"", "", "">>, <<"Linux", "out", "vm">>, <<"", "out", "">> }

RawSpec(names, md5, url, typed, absent) ==
    [guest_os_type |-> names[1], iso_md5 |-> md5, iso_url |-> url,
     output_directory |-> names[2], vm_name |-> names[3], typed |-> typed,
     absent |-> absent]

NoNames == <<"", "", "">>

\* raw specs that lack keys (under an absent key the record holds the empty
\* value, which Decode does not read)
PartialRawSpecs ==
    { RawSpec(NoNames, <<>>, <<>>, TRUE,
              {"guest_os_type", "iso_md5", "iso_url", "output_directory", "vm_name"}),
      RawSpec(<<"Linux", "out", "vm">>, <<>>, <<>>, TRUE, {"iso_md5", "iso_url"}),
      RawSpec(NoNames, <<"A","b","1">>, UrlAbs, TRUE,
              {"guest_os_type", "output_directory", "vm_name"}),
      RawSpec(<<"", "out", "">>, <<>>, UrlHttp, TRUE, {"guest_os_type", "iso_md5"}) }

\* raw specs: every key given; some keys absent; and, with typed = FALSE, a
\* value that is no string under vm_name
RawSpecs ==
    { RawSpec(n, m, u, TRUE, {}) : n \in Names, m \in MD5s, u \in Urls }
    \cup PartialRawSpecs
    \cup { RawSpec(NoNames, <<>>, <<>>, FALSE, {}),
           RawSpec(NoNames, <<"a","b","1">>, UrlAbsMissing, FALSE, {}) }

\* the raw specs used where whole builds are explored
BuildRawSpecs ==
    { RawSpec(<<"", "out", "">>, <<"a","b","1">>, UrlAbs, TRUE, {}),
      RawSpec(NoNames, <<"a","b","1">>, UrlAbsMissing, TRUE, {}) }

\* what exec.LookPath and driver.Verify answer: tool missing, tool present
\* but failing Verify, tool present and verified
Envs == { <<FALSE, FALSE>>, <<TRUE, FALSE>>, <<TRUE, TRUE>> }

NoRaw == RawSpec(NoNames, <<>>, <<>>, TRUE, {})

\* the canonical form Prepare stores for the relative file a
UrlRelStored == <<"f","i","l","e",":","/","/","a">>

\* every value b.config can hold between two calls, given the inputs above
Configs ==
    [GuestOSType : {"", "Linux", "Other"},
     ISOMD5 : MD5s,
     ISOUrl : Urls \cup {UrlRelStored},
     OutputDir : {"", "out", "virtualbox"},
     VMName : {"", "vm", "packer"}]

\* Validate, computed once for every config and environment
Validated == [c \in Configs |-> [env \in Envs |-> Validate(c, env[1], env[2])]]

\* the whole of Prepare on builder b = [config, driver]:
\* [config, driver, ret, errs, log]
PrepareCall(b, raw, toolFound, verifyOk) ==
    IF Decode(b.config, raw).err
    THEN \* Decode fails: its error is returned at once, nothing is validated
         \* and b.driver is not assigned
         [config |-> Decode(b.config, raw).config, driver |-> b.driver,
          ret |-> "DecodeError", errs |-> <<>>, log |-> <<>>]
    ELSE Validated[Decode(b.config, raw).config][<<toolFound, verifyOk>>]

(***************************************************************************)
(* Builder.Run, the step runner and Builder.Cancel.                        *)
(***************************************************************************)
\* variant: the disk is created before the VM
StepsSwapped ==
    << "stepDownloadISO", "stepPrepareOutputDir", "stepSuppressMessages",
       "stepCreateDisk", "stepCreateVM", "stepAttachISO" >>
\* the step list of Run, in its order
Steps ==
    << "stepDownloadISO", "stepPrepareOutputDir", "stepSuppressMessages",
       "stepCreateVM", "stepCreateDisk", "stepAttachISO" >>

NilRunner == [typ |-> "nil", ptr |-> 0]

\* what Run returns
NilArtifact == [present |-> FALSE, dir |-> "", name |-> ""]
RunResult(c) == NilArtifact

\* &multistep.BasicRunner{Steps: steps}
NewRunner(steps) ==
    [steps |-> steps, running |-> FALSE, cancelled |-> FALSE, idx |-> 1,
     inStep |-> FALSE, executed |-> <<>>, results |-> <<>>, cleaned |-> <<>>,
     halted |-> FALSE, cause |-> "none"]

\* the runner's loop is over: a step halted, the run was cancelled, or no step is left
LoopOver(r) == ~r.inStep /\ (r.halted \/ r.idx > Len(r.steps))

\* variant: cleanups in the order of execution
NextCleanupForward(r) == r.executed[Len(r.cleaned) + 1]
\* the step whose cleanup runs next: the last executed one not yet cleaned up
NextCleanup(r) == r.executed[Len(r.executed) - Len(r.cleaned)]

\* what a step returns: the download step observes a cancellation itself
StepAction(r, res) ==
    IF r.steps[r.idx] = "stepDownloadISO" /\ r.cancelled THEN "Halt" ELSE res

\* the zero value of the config struct
ZeroConfig ==
    [GuestOSType |-> "", ISOMD5 |-> <<>>, ISOUrl |-> <<>>, OutputDir |-> "",
     VMName |-> ""]

\* the fields of config c that a Prepare of raw leaves as they are: raw has
\* no key for them, or, for VMName, the value under vm_name is no string and
\* Decode fails on it; the other fields zero
Kept(c, raw) ==
    [GuestOSType |-> Field(raw, "guest_os_type", c.GuestOSType, ""),
     ISOMD5 |-> Field(raw, "iso_md5", c.ISOMD5, <<>>),
     ISOUrl |-> Field(raw, "iso_url", c.ISOUrl, <<>>),
     OutputDir |-> Field(raw, "output_directory", c.OutputDir, ""),
     VMName |-> IF raw.typed THEN Field(raw, "vm_name", c.VMName, "")
                             ELSE c.VMName]

Init ==
    /\ config = ZeroConfig
    /\ driver = "nil"
    /\ runner = NilRunner
    /\ prep = [called |-> FALSE, raw |-> NoRaw, kept |-> ZeroConfig,
               env |-> <<FALSE, FALSE>>, ret |-> "none", errs |-> <<>>,
               log |-> <<>>]
    /\ runPc = "idle"
    /\ bag = [driver |-> "nil"]
    /\ rn = NewRunner(<<>>)
    /\ artifact = NilArtifact
    /\ runs = 0
    /\ cancels = 0
    /\ cancelPc = "idle"
    /\ recancelChanged = FALSE
    /\ faulted = FALSE
    /\ runSincePrepare = FALSE

\* Builder.Prepare(raw), with what exec.LookPath and driver.Verify answer
Prepare(raw, toolFound, verifyOk) ==
    /\ runPc \in {"idle", "returned"}
    /\ ~faulted
    /\ \E r \in {PrepareCall([config |-> config, driver |-> driver], raw,
                            toolFound, verifyOk)} :
          /\ config' = r.config
          /\ driver' = r.driver
          /\ prep' = [called |-> TRUE, raw |-> raw, kept |-> Kept(config, raw),
                      env |-> <<toolFound, verifyOk>>, ret |-> r.ret,
                      errs |-> r.errs, log |-> r.log]
    /\ runSincePrepare' = FALSE
    /\ UNCHANGED runVars

\* Builder.Run up to the right-hand side of the runner assignment:
\* the step list, the state bag, the new BasicRunner
RunCall ==
    /\ runPc \in {"idle", "returned"}
    /\ ~faulted
    /\ runs < MaxRuns
    /\ runs' = runs + 1
    /\ bag' = [driver |-> driver]
    /\ rn' = NewRunner(Steps)
    /\ runPc' = "assign"
    /\ runSincePrepare' = TRUE
    /\ UNCHANGED <<config, driver, runner, prep, artifact, cancels,
                   cancelPc, recancelChanged, faulted>>

\* b.runner = ...: an unsynchronised store of a two-word interface value;
\* the first word to land is either one
RunStoreFirst(w) ==
    /\ runPc = "assign"
    /\ ~faulted
    /\ runner' = IF w = "typ" THEN [runner EXCEPT !.typ = "BasicRunner"]
                              ELSE [runner EXCEPT !.ptr = runs]
    /\ runPc' = IF w = "typ" THEN "storePtr" ELSE "storeTyp"
    /\ UNCHANGED <<config, driver, prep, bag, rn, artifact, runs, cancels,
                   cancelPc, recancelChanged, faulted, runSincePrepare>>

RunStoreSecond ==
    /\ runPc \in {"storePtr", "storeTyp"}
    /\ ~faulted
    /\ runner' = [typ |-> "BasicRunner", ptr |-> runs]
    /\ runPc' = "assigned"
    /\ UNCHANGED <<config, driver, prep, bag, rn, artifact, runs, cancels,
                   cancelPc, recancelChanged, faulted, runSincePrepare>>

\* b.runner.Run(state) begins
RunnerStart ==
    /\ runPc = "assigned"
    /\ ~faulted
    /\ rn' = [rn EXCEPT !.running = TRUE]
    /\ runPc' = "running"
    /\ UNCHANGED <<config, driver, runner, prep, bag, artifact, runs, cancels,
                   cancelPc, recancelChanged, faulted, runSincePrepare>>

\* the runner's checkpoint before a step: stop if cancelled, else start the step
StepBegin ==
    /\ runPc = "running"
    /\ ~faulted
    /\ ~rn.inStep /\ ~rn.halted /\ rn.idx <= Len(rn.steps)
    /\ rn' = IF rn.cancelled
             THEN [rn EXCEPT !.halted = TRUE, !.cause = "cancelled"]
             ELSE [rn EXCEPT !.inStep = TRUE,
                             !.executed = Append(@, rn.steps[rn.idx])]
    /\ UNCHANGED <<config, driver, runner, prep, runPc, bag, artifact, runs,
                   cancels, cancelPc, recancelChanged, faulted, runSincePrepare>>

\* the running step returns Continue or Halt
StepEnd(res) ==
    /\ runPc = "running"
    /\ ~faulted
    /\ rn.inStep
    /\ LET a == StepAction(rn, res) IN
       rn' = IF a = "Halt"
             THEN [rn EXCEPT !.inStep = FALSE, !.results = Append(@, a),
                             !.halted = TRUE,
                             !.cause = IF rn.cancelled THEN "cancelled" ELSE "step"]
             ELSE [rn EXCEPT !.inStep = FALSE, !.results = Append(@, a),
                             !.idx = @ + 1]
    /\ UNCHANGED <<config, driver, runner, prep, runPc, bag, artifact, runs,
                   cancels, cancelPc, recancelChanged, faulted, runSincePrepare>>

\* one cleanup of the unwinding
Cleanup ==
    /\ runPc = "running"
    /\ ~faulted
    /\ LoopOver(rn)
    /\ Len(rn.cleaned) < Len(rn.executed)
    /\ rn' = [rn EXCEPT !.cleaned = Append(@, NextCleanup(rn))]
    /\ UNCHANGED <<config, driver, runner, prep, runPc, bag, artifact, runs,
                   cancels, cancelPc, recancelChanged, faulted, runSincePrepare>>

\* the runner returns and Run returns
RunReturn ==
    /\ runPc = "running"
    /\ ~faulted
    /\ LoopOver(rn)
    /\ Len(rn.cleaned) = Len(rn.executed)
    /\ rn' = [rn EXCEPT !.running = FALSE]
    /\ artifact' = RunResult(config)
    /\ runPc' = "returned"
    /\ UNCHANGED <<config, driver, runner, prep, bag, runs, cancels,
                   cancelPc, recancelChanged, faulted, runSincePrepare>>

\* the runner's Cancel, on the runner that pointer p names
RunnerCancel(p) ==
    IF p = runs /\ rn.running THEN [rn EXCEPT !.cancelled = TRUE] ELSE rn

\* Builder.Cancel, from another goroutine, up to its test of b.runner: it
\* reads b.runner as it finds it and returns when that is nil
CancelTest ==
    /\ ~faulted
    /\ cancelPc = "idle"
    /\ cancels < MaxCancels
    /\ cancels' = cancels + 1
    /\ cancelPc' = IF runner.typ = "nil" THEN "idle" ELSE "call"
    /\ UNCHANGED <<config, driver, runner, prep, runPc, bag, rn, artifact, runs,
                   recancelChanged, faulted, runSincePrepare>>

\* b.runner.Cancel(): a second read of b.runner, and the call through it
CancelCall ==
    /\ ~faulted
    /\ cancelPc = "call"
    /\ cancelPc' = "idle"
    /\ IF runner.ptr = 0
       THEN \* a method call through a nil *BasicRunner
            /\ faulted' = TRUE
            /\ UNCHANGED <<rn, recancelChanged>>
       ELSE /\ rn' = RunnerCancel(runner.ptr)
            /\ recancelChanged' = (recancelChanged \/ (rn.cancelled /\ rn' # rn))
            /\ UNCHANGED faulted
    /\ UNCHANGED <<config, driver, runner, prep, runPc, bag, artifact, runs,
                   cancels, runSincePrepare>>

(***************************************************************************)
(* Specifications.                                                         *)
(***************************************************************************)
\* every Prepare input, no build
NextPrepare ==
    \E raw \in RawSpecs, env \in Envs : Prepare(raw, env[1], env[2])

SpecPrepare == Init /\ [][NextPrepare]_vars

\* whole builds
BuildPrepare ==
    \E raw \in BuildRawSpecs, env \in Envs : Prepare(raw, env[1], env[2])

Next ==
    \/ BuildPrepare
    \/ RunCall
    \/ \E w \in {"typ", "ptr"} : RunStoreFirst(w)
    \/ RunStoreSecond
    \/ RunnerStart
    \/ StepBegin
    \/ \E res \in {"Continue", "Halt"} : StepEnd(res)
    \/ Cleanup
    \/ RunReturn
    \/ CancelTest
    \/ CancelCall

Spec == Init /\ [][Next]_vars

(***************************************************************************)
(* Properties.                                                             *)
(***************************************************************************)
\* the last Prepare reported an error of this kind
HasErr(kind) == \E i \in 1..Len(prep.errs) : prep.errs[i].kind = kind

\* the last Prepare touched the driver side: tool lookup or Verify
DriverTouched == \E i \in 1..Len(prep.log) : prep.log[i].op \in {"LookPath", "Verify"}

\* the driver could not be built in the environment of the last Prepare
DriverUnbuildable == ~prep.env[1] \/ ~prep.env[2]

\* u names a local path (no scheme, or scheme file) that does not exist
LocalMissing(u) ==
    /\ u # <<>>
    /\ ~Parse(u).err
    /\ Parse(u).url.Scheme \in {<<>>, FileScheme}
    /\ Parse(u).url.Path \notin Files

\* the iso_url the last Prepare validated: the value the raw spec gave under
\* the key, or, the key being absent, the value b.config held before the
\* call and kept
GivenISOUrl == Field(prep.raw, "iso_url", prep.kept.ISOUrl, prep.raw.iso_url)

\* C1: whenever iso_url and the checksum are both absent or empty in the raw
\* spec, Prepare returns one aggregate error holding the missing-URL and the
\* missing-checksum defect, and the driver failure too when the driver
\* cannot be built.
C1_AggregateForEveryRaw ==
    (prep.called /\ prep.raw.iso_url = <<>> /\ prep.raw.iso_md5 = <<>>)
    => /\ prep.ret = "MultiError"
       /\ HasErr(ErrNoMD5.kind)
       /\ HasErr(ErrNoUrl.kind)
       /\ (DriverUnbuildable => HasErr("Failed creating VirtualBox driver"))

\* C2 as stated: for an iso_url that is a local path that does not exist,
\* Prepare fails and no driver-side effect happened in that call.
C2_NoDriverEffectOnBadFile ==
    (prep.called /\ LocalMissing(prep.raw.iso_url))
    => (prep.ret # "nil" /\ ~DriverTouched)

\* C2 amended: for such an iso_url, given in the raw spec or kept in the
\* config from an earlier call, Prepare fails; when the raw spec decodes,
\* the failed existence check is the first effect of the call and comes
\* before any driver interaction, which it does not prevent: the tool lookup
\* still runs in the same call, right after it, and its failure joins the
\* same aggregate error.
C2_BadFileFirstDriverStillBuilt ==
    (prep.called /\ LocalMissing(GivenISOUrl))
    => /\ prep.ret # "nil"
       /\ prep.raw.typed
          => /\ HasErr(ErrBadFile.kind)
             /\ Len(prep.log) >= 2
             /\ prep.log[1].op = "Stat" /\ ~prep.log[1].ok
             /\ prep.log[2].op = "LookPath"
             /\ DriverUnbuildable => HasErr("Failed creating VirtualBox driver")
             /\ \A i \in 1..Len(prep.log) :
                    prep.log[i].op \in {"LookPath", "Verify"} => i > 1

C2_Witness ==
    /\ prep.called /\ prep.raw.typed
    /\ prep.raw.iso_url = UrlAbsMissing
    /\ prep.ret = "MultiError"
    /\ Len(prep.log) = 3 /\ prep.log[3].op = "Verify"

\* two iso_url values name the same medium: they parse to the same scheme
\* (an absent one being file), host and path
Medium(u) ==
    [scheme |-> IF Parse(u).url.Scheme = <<>> THEN FileScheme ELSE Parse(u).url.Scheme,
     host |-> Parse(u).url.Host,
     path |-> Parse(u).url.Path]
SameMedium(u, w) ==
    /\ u # <<>> /\ w # <<>>
    /\ ~Parse(u).err /\ ~Parse(w).err
    /\ Parse(u).url.Opaque = <<>> /\ Parse(w).url.Opaque = <<>>
    /\ Medium(u) = Medium(w)

\* C3: once Prepare accepted an iso_url and stored c, Prepare of c accepts
\* and stores c again; and every input naming the same medium as an accepted
\* one is accepted too and stores the same string.
C3_NormalizationIdempotent ==
    (prep.called /\ prep.ret = "nil")
    => /\ CheckISOUrl(config, <<>>).errs = <<>>
       /\ CheckISOUrl(config, <<>>).config.ISOUrl = config.ISOUrl
       /\ \A w \in Urls :
            SameMedium(w, prep.raw.iso_url)
            => /\ CheckISOUrl([config EXCEPT !.ISOUrl = w], <<>>).errs = <<>>
               /\ CheckISOUrl([config EXCEPT !.ISOUrl = w], <<>>).config.ISOUrl
                    = config.ISOUrl

\* C4: after a Prepare that returned no error, guest_os_type,
\* output_directory and vm_name are the value the raw spec supplied when it
\* supplied one and else "Other", "virtualbox", "packer", never empty; the
\* stored checksum is not empty and is the supplied one lower-cased.
C4_DefaultsAndLowerChecksum ==
    (prep.called /\ prep.ret = "nil")
    => /\ config.GuestOSType # "" /\ config.OutputDir # "" /\ config.VMName # ""
       /\ config.GuestOSType =
            IF prep.raw.guest_os_type # "" THEN prep.raw.guest_os_type ELSE "Other"
       /\ config.OutputDir =
            IF prep.raw.output_directory # "" THEN prep.raw.output_directory
            ELSE "virtualbox"
       /\ config.VMName =
            IF prep.raw.vm_name # "" THEN prep.raw.vm_name ELSE "packer"
       /\ config.ISOMD5 # <<>>
       /\ config.ISOMD5 = ToLower(prep.raw.iso_md5)
       /\ \A i \in 1..Len(config.ISOMD5) : ~IsUpper(config.ISOMD5[i])

\* C5: after a Prepare that returned no error the stored iso_url has scheme
\* file and a path that exists, or scheme http or https; an input whose
\* scheme is none of file, http, https gets an error naming the scheme; and
\* for every input resolving to scheme file the existence of its path is
\* what Prepare checks.
C5_UrlResolves ==
    /\ (prep.called /\ prep.ret = "nil")
       => \/ /\ Parse(config.ISOUrl).url.Scheme = FileScheme
             /\ Parse(config.ISOUrl).url.Path \in Files
          \/ Parse(config.ISOUrl).url.Scheme
                \in { <<"h","t","t","p">>, <<"h","t","t","p","s">> }
    /\ (prep.called /\ prep.raw.typed /\ prep.raw.iso_url # <<>>
        /\ ~Parse(prep.raw.iso_url).err)
       => /\ ToLower(Medium(prep.raw.iso_url).scheme) \notin SupportedSchemes
             => \E i \in 1..Len(prep.errs) :
                   /\ prep.errs[i].kind = "Unsupported URL scheme in iso_url"
                   /\ prep.errs[i].detail = ToLower(Medium(prep.raw.iso_url).scheme)
          /\ ToLower(Medium(prep.raw.iso_url).scheme) = FileScheme
             => \E i \in 1..Len(prep.log) :
                   /\ prep.log[i].op = "Stat"
                   /\ prep.log[i].arg = Medium(prep.raw.iso_url).path

\* every step of the run returned Continue and no cancellation occurred
Completed ==
    /\ ~rn.halted /\ ~rn.cancelled
    /\ Len(rn.results) = 6
    /\ \A i \in 1..Len(rn.results) : rn.results[i] = "Continue"

\* C6: a Run that completed returns an artifact carrying the configured
\* output directory and VM name; a Run that halted or was cancelled returns
\* no artifact.
C6_ArtifactIffCompleted ==
    (prep.called /\ prep.ret = "nil" /\ runPc = "returned" /\ runSincePrepare)
    => IF Completed
       THEN artifact = [present |-> TRUE, dir |-> config.OutputDir,
                        name |-> config.VMName]
       ELSE ~artifact.present

\* C7: no Cancel call faults, wherever it falls in a Run, and a Cancel of an
\* already cancelled run changes nothing.
C7_CancelSafe == ~faulted /\ ~recancelChanged

\* C8: when the most recent Prepare failed to build the driver, no step of a
\* later Run executes; and no step of a Run after a Prepare executes with an
\* absent driver in the state bag.
C8_NoBuildWithoutDriver ==
    (prep.called /\ runSincePrepare)
    => /\ HasErr("Failed creating VirtualBox driver") => rn.executed = <<>>
       /\ rn.executed # <<>> => bag.driver # "nil"

\* the order in which a build is to run its steps
BuildOrder ==
    << "stepDownloadISO", "stepPrepareOutputDir", "stepSuppressMessages",
       "stepCreateVM", "stepCreateDisk", "stepAttachISO" >>

\* C9: within a Run the steps executed so far are the first ones of the fixed
\* order, one at a time; every step before the last one started returned
\* Continue, so nothing runs after a Halt; when the download step halts,
\* create-VM, create-disk and attach-ISO never run.
C9_StepsInOrder ==
    /\ Len(rn.executed) <= Len(BuildOrder)
    /\ rn.executed = SubSeq(BuildOrder, 1, Len(rn.executed))
    /\ Len(rn.results) = IF rn.inStep THEN Len(rn.executed) - 1 ELSE Len(rn.executed)
    /\ \A i \in 1..Len(rn.results) :
          i < Len(rn.executed) => rn.results[i] = "Continue"
    /\ (rn.results # <<>> /\ rn.results[1] = "Halt")
       => /\ rn.executed = << "stepDownloadISO" >>
          /\ \A i \in 1..Len(rn.executed) :
                rn.executed[i] \notin {"stepCreateVM", "stepCreateDisk", "stepAttachISO"}

C9_Witness ==
    /\ runPc = "returned"
    /\ rn.cause = "step"
    /\ Len(rn.executed) = 4
    /\ rn.results = << "Continue", "Continue", "Continue", "Halt" >>

\* C10: the cleanups run so far are those of the last steps executed, latest
\* first, each once; none runs before the loop is over; and when a Run that
\* halted (by a step or by cancellation) has returned, every executed step
\* has been cleaned up.
C10_CleanupReverse ==
    /\ Len(rn.cleaned) <= Len(rn.executed)
    /\ \A i \in 1..Len(rn.cleaned) :
          rn.cleaned[i] = rn.executed[Len(rn.executed) - i + 1]
    /\ \A i, j \in 1..Len(rn.cleaned) : rn.cleaned[i] = rn.cleaned[j] => i = j
    /\ rn.cleaned # <<>> => LoopOver(rn)
    /\ (runPc = "returned" /\ rn.halted) => Len(rn.cleaned) = Len(rn.executed)

C10_Witness ==
    /\ runPc = "returned"
    /\ rn.halted /\ rn.cause = "cancelled"
    /\ Len(rn.executed) >= 3
    /\ Len(rn.cleaned) = Len(rn.executed)

====
